---- MODULE Spec2Model ----
(***************************************************************************)
(* A model of perf/__init__.py (perf 0.4): the Benchmark aggregate         *)
(* (add_run, mean, _get_worker_run, _as_json/_json_load) and the           *)
(* two-sample t-test (_tdist95conf_level, _pooled_sample_variance,         *)
(* _tscore, is_significant).                                               *)
(*                                                                         *)
(* Python values are represented as follows.                               *)
(*   None            the empty tuple <<>>; a value x that may be None is   *)
(*                   carried as <<x>> (see Some)                           *)
(*   a float         [k |-> "float", v |-> n]  for the float n.0           *)
(*   float('inf')    [k |-> "inf",   v |-> 0]                              *)
(*   float('nan')    [k |-> "nan",   v |-> 0]                              *)
(*   an int          [k |-> "int",   v |-> n]                              *)
(*   a run           <<samples, warmups>>, two tuples of values            *)
(*   a dict          a function whose domain is the set of its keys        *)
(*   a computed float (a mean, a variance)                                 *)
(*                   [k |-> "float"|"inf", n |-> num, d |-> den], the      *)
(*                   exact rational num/den in lowest terms                *)
(* An operation that may raise returns a record whose exc field is "None"  *)
(* or the exception raised.                                                *)
(***************************************************************************)
EXTENDS Integers, Sequences, FiniteSets, TLC

VARIABLES self, other, op, exc, ret, args

vars == <<self, other, op, exc, ret, args>>

----------------------------------------------------------------------------
(* Bounds of the model *)

\* longest samples / warmups argument passed to add_run
MaxLen == 2
\* add_run is not called with samples that would take the aggregate
\* beyond this many stored samples
MaxStored == 4

----------------------------------------------------------------------------
(* Python values *)

None == <<>>

Some(x) == <<x>>

F(n) == [k |-> "float", v |-> n]

Inf == [k |-> "inf", v |-> 0]

NaN == [k |-> "nan", v |-> 0]

I(n) == [k |-> "int", v |-> n]

\* isinstance(value, float)
isinstance_float(value) == value.k \in {"float", "inf", "nan"}

\* value >= 0
ge0(value) ==
    CASE value.k \in {"float", "int"} -> value.v >= 0
      [] value.k = "inf" -> TRUE
      [] value.k = "nan" -> FALSE

\* ValidValue without the isinstance test
ValidValue_any_number(value) == ge0(value)

\* isinstance(value, float) and value >= 0   (the test add_run negates)
ValidValue(value) == isinstance_float(value) /\ ge0(value)

RECURSIVE GCD(_, _)
GCD(a, b) == IF b = 0 THEN a ELSE GCD(b, a % b)

Abs(x) == IF x < 0 THEN -x ELSE x

\* the float n/d (d # 0), kept exactly and in lowest terms
Frac(n, d) ==
    LET g == GCD(Abs(n), Abs(d))
        s == IF d < 0 THEN -1 ELSE 1
    IN  [k |-> "float", n |-> s * (n \div g), d |-> s * (d \div g)]

InfFloat == [k |-> "inf", n |-> 0, d |-> 1]

RECURSIVE SumV(_)
SumV(data) == IF data = <<>> THEN 0 ELSE Head(data).v + SumV(Tail(data))

\* statistics.mean(data): StatisticsError on no data, else the exact mean
\* (an infinite data point makes the mean infinite)
statistics_mean(data) ==
    IF data = <<>> THEN [exc |-> "StatisticsError", ret |-> None]
    ELSE IF \E i \in 1..Len(data) : data[i].k = "inf"
         THEN [exc |-> "None", ret |-> Some(InfFloat)]
         ELSE [exc |-> "None", ret |-> Some(Frac(SumV(data), Len(data)))]

----------------------------------------------------------------------------
(* class Benchmark *)

\* Benchmark._clear_stats_cache
_clear_stats_cache(b) == [b EXCEPT !._mean = None]

\* Benchmark.__init__; name, loops, inner_loops, metadata are None or Some(x)
Benchmark(name, loops, inner_loops, metadata) ==
    _clear_stats_cache(
        [name |-> name, loops |-> loops, inner_loops |-> inner_loops,
         _runs |-> <<>>, _mean |-> None,
         metadata |-> IF metadata # None THEN metadata[1] ELSE <<>>])

RECURSIVE Flatten(_)
Flatten(runs) == IF runs = <<>> THEN <<>> ELSE Head(runs)[1] \o Flatten(Tail(runs))

\* Benchmark.get_samples
get_samples(b) == Flatten(b._runs)

\* Benchmark.mean
mean(b) ==
    IF b._mean = None
    THEN LET m == statistics_mean(get_samples(b))
         IN  IF m.exc # "None"
             THEN [bench |-> b, exc |-> m.exc, ret |-> None]
             ELSE [bench |-> [b EXCEPT !._mean = m.ret], exc |-> "None", ret |-> m.ret]
    ELSE [bench |-> b, exc |-> "None", ret |-> b._mean]

\* "if warmups:" -- neither None nor empty
Truthy(warmups) == warmups # None /\ Len(warmups[1]) > 0

SamplesError == "TypeError: samples must be a non-empty list of float >= 0"

WarmupsError == "TypeError: warmups must be a list of float >= 0"

\* add_run, first test: not samples or any(not valid for value in samples)
BadSamples(samples) ==
    Len(samples) = 0 \/ \E i \in 1..Len(samples) : ~ValidValue(samples[i])

\* add_run, second test: warmups and any(not valid for value in warmups)
BadWarmups(warmups) ==
    Truthy(warmups) /\ \E i \in 1..Len(warmups[1]) : ~ValidValue(warmups[1][i])

\* add_run: the run tuple built from the arguments
MakeRun(samples, warmups) ==
    IF Truthy(warmups) THEN <<samples, warmups[1]>> ELSE <<samples, <<>>>>

\* ShapeError without the comparison of the sample counts
ShapeError_no_samples(runs, run) ==
    IF runs # <<>> /\ Len(run[2]) # Len(runs[1][2])
    THEN "ValueError: different number of warmups"
    ELSE "None"

\* ShapeError without the comparison of the warmup counts
ShapeError_no_warmups(runs, run) ==
    IF runs # <<>> /\ Len(run[1]) # Len(runs[1][1])
    THEN "ValueError: different number of samples"
    ELSE "None"

\* add_run: the comparison with the first run; "None" when the run fits
ShapeError(runs, run) ==
    IF runs # <<>>
    THEN IF Len(run[1]) # Len(runs[1][1]) THEN "ValueError: different number of samples"
         ELSE IF Len(run[2]) # Len(runs[1][2]) THEN "ValueError: different number of warmups"
         ELSE "None"
    ELSE "None"

\* AppendRun without the call of _clear_stats_cache
AppendRun_keep_cache(b, run) == [b EXCEPT !._runs = Append(@, run)]

\* add_run: the two closing statements
AppendRun(b, run) == [_clear_stats_cache(b) EXCEPT !._runs = Append(@, run)]

\* Benchmark.add_run(samples, warmups); warmups is None or Some(tuple)
add_run(b, samples, warmups) ==
    IF BadSamples(samples) THEN [bench |-> b, exc |-> SamplesError]
    ELSE IF BadWarmups(warmups) THEN [bench |-> b, exc |-> WarmupsError]
    ELSE LET run == MakeRun(samples, warmups)
             err == ShapeError(b._runs, run)
         IN  IF err # "None" THEN [bench |-> b, exc |-> err]
             ELSE [bench |-> AppendRun(b, run), exc |-> "None"]

\* _get_worker_run with a loop over 'loops inner_loops' only
_get_worker_run_no_metadata(b, run_bench) ==
    IF Len(run_bench._runs) # 1
    THEN [exc |-> "ValueError: A worker must return exactly one run", ret |-> None]
    ELSE IF run_bench.loops # b.loops
    THEN [exc |-> "ValueError: loops value is different", ret |-> None]
    ELSE IF run_bench.inner_loops # b.inner_loops
    THEN [exc |-> "ValueError: inner_loops value is different", ret |-> None]
    ELSE [exc |-> "None", ret |-> Some(run_bench._runs[1])]

\* Benchmark._get_worker_run(run_bench): the loop over
\* 'loops inner_loops metadata' raises at the first attribute that differs
_get_worker_run(b, run_bench) ==
    IF Len(run_bench._runs) # 1
    THEN [exc |-> "ValueError: A worker must return exactly one run", ret |-> None]
    ELSE IF run_bench.loops # b.loops
    THEN [exc |-> "ValueError: loops value is different", ret |-> None]
    ELSE IF run_bench.inner_loops # b.inner_loops
    THEN [exc |-> "ValueError: inner_loops value is different", ret |-> None]
    ELSE IF run_bench.metadata # b.metadata
    THEN [exc |-> "ValueError: metadata value is different", ret |-> None]
    ELSE [exc |-> "None", ret |-> Some(run_bench._runs[1])]

----------------------------------------------------------------------------
(* Benchmark._as_json and Benchmark._json_load *)

_JSON_VERSION == 1

\* dict.get(key): Some(value), or None when the key is absent
dict_get(d, key) == IF key \in DOMAIN d THEN Some(d[key]) ELSE None

\* RunAsJson that never writes the warmups
RunAsJson_no_warmups(run) == [samples |-> run[1]]

\* _as_json, the loop body: warmups are written only when non-empty
RunAsJson(run) ==
    IF run[2] # <<>>
    THEN [samples |-> run[1], warmups |-> run[2]]
    ELSE [samples |-> run[1]]

\* _as_json: name and metadata are written when truthy, loops and
\* inner_loops when not None
_as_json(b) ==
    LET runs == [i \in 1..Len(b._runs) |-> RunAsJson(b._runs[i])]
        d0 == ("runs" :> runs)
        d1 == IF b.name # None /\ b.name[1] # "" THEN d0 @@ ("name" :> b.name[1]) ELSE d0
        d2 == IF DOMAIN b.metadata # {} THEN d1 @@ ("metadata" :> b.metadata) ELSE d1
        d3 == IF b.loops # None THEN d2 @@ ("loops" :> b.loops[1]) ELSE d2
        d4 == IF b.inner_loops # None THEN d3 @@ ("inner_loops" :> b.inner_loops[1]) ELSE d3
    IN  [results |-> d4, version |-> _JSON_VERSION]

\* _json_load, the loop over data['runs']: the first add_run that raises
\* ends the load
RECURSIVE LoadRuns(_, _)
LoadRuns(bench, runs) ==
    IF runs = <<>> THEN [bench |-> bench, exc |-> "None"]
    ELSE LET r == add_run(bench, Head(runs).samples, dict_get(Head(runs), "warmups"))
         IN  IF r.exc # "None" THEN r ELSE LoadRuns(r.bench, Tail(runs))

\* Benchmark._json_load(data)
_json_load(data) ==
    IF dict_get(data, "version") # Some(_JSON_VERSION)
    THEN [bench |-> None, exc |-> "ValueError: version not supported"]
    ELSE IF "results" \notin DOMAIN data
    THEN [bench |-> None, exc |-> "ValueError: JSON doesn't contain results"]
    ELSE LET d == data.results
             bench == Benchmark(dict_get(d, "name"), dict_get(d, "loops"),
                                dict_get(d, "inner_loops"), dict_get(d, "metadata"))
         IN  IF "runs" \notin DOMAIN d
             THEN [bench |-> None, exc |-> "KeyError: runs"]
             ELSE LET r == LoadRuns(bench, d.runs)
                  IN  IF r.exc # "None" THEN [bench |-> None, exc |-> r.exc] ELSE r

----------------------------------------------------------------------------
(* Arguments the model passes to the Benchmark operations *)

SeqsUpTo(S, n) == UNION {[1..m -> S] : m \in 0..n}

SampleValues == {F(1), F(2), F(-1), NaN, Inf, I(1)}

WarmupValues == {F(1), F(-1)}

SampleInputs == SeqsUpTo(SampleValues, MaxLen)

WarmupInputs == {None} \cup {Some(w) : w \in SeqsUpTo(WarmupValues, MaxLen - 1)}

\* arguments add_run accepts on an empty aggregate
ValidSampleInputs == {s \in SampleInputs : ~BadSamples(s)}

ValidWarmupInputs == {w \in WarmupInputs : ~BadWarmups(w)}

\* constructor arguments
NameArgs == {None, Some("x"), Some("")}

LoopsArgs == {None, Some(2)}

InnerLoopsArgs == {None, Some(3)}

MetadataArgs == {None, Some(<<>>), Some("k" :> "v")}

----------------------------------------------------------------------------
(* Spec: calls on one Benchmark built with the default arguments, with     *)
(* every argument of SampleInputs x WarmupInputs, valid or not             *)

Init ==
    /\ self = Benchmark(None, None, None, None)
    /\ other = Benchmark(None, None, None, None)
    /\ op = "__init__"
    /\ exc = "None"
    /\ ret = None
    /\ args = None

\* self.add_run(samples, warmups)
AddRunFrom(SI, WI) ==
    /\ LET stored == Len(get_samples(self))
       IN  \E samples \in SI :
              /\ stored + Len(samples) <= MaxStored
              /\ \E warmups \in WI :
                    LET r == add_run(self, samples, warmups)
                    IN  /\ self' = r.bench
                        /\ exc' = r.exc
    /\ op' = "add_run"
    /\ ret' = None
    /\ args' = None
    /\ UNCHANGED other

AddRun == AddRunFrom(SampleInputs, WarmupInputs)

\* self.mean()
CallMean ==
    /\ LET r == mean(self)
       IN  /\ self' = r.bench
           /\ exc' = r.exc
           /\ ret' = r.ret
    /\ op' = "mean"
    /\ UNCHANGED <<other, args>>

Next == AddRun \/ CallMean

Spec == Init /\ [][Next]_vars

----------------------------------------------------------------------------
(* SpecJson: Benchmarks built with every combination of constructor        *)
(* arguments, filled by successful add_run calls, encoded and decoded      *)

InitJson ==
    /\ \E name \in NameArgs, loops \in LoopsArgs,
          inner_loops \in InnerLoopsArgs, metadata \in MetadataArgs :
          self = Benchmark(name, loops, inner_loops, metadata)
    /\ other = Benchmark(None, None, None, None)
    /\ op = "__init__"
    /\ exc = "None"
    /\ ret = None
    /\ args = None

AddValidRun == AddRunFrom(ValidSampleInputs, ValidWarmupInputs)

\* Benchmark._json_load(self._as_json())
RoundTrip ==
    /\ LET r == _json_load(_as_json(self))
       IN  /\ exc' = r.exc
           /\ ret' = r.bench
    /\ op' = "_json_load"
    /\ UNCHANGED <<self, other, args>>

NextJson == AddValidRun \/ RoundTrip

SpecJson == InitJson /\ [][NextJson]_vars

----------------------------------------------------------------------------
(* SpecWorker: a parent aggregate (self) and a worker's aggregate (other), *)
(* each built with its own loops, inner_loops and metadata; the parent     *)
(* takes the worker's run with _get_worker_run and appends it with add_run *)

WorkerSampleInputs == {s \in SeqsUpTo({F(1)}, MaxLen) : s # <<>>}

WorkerWarmupInputs == {None, Some(<<F(1)>>)}

InitWorker ==
    /\ \E loops \in LoopsArgs, inner_loops \in InnerLoopsArgs, metadata \in MetadataArgs :
          self = Benchmark(None, loops, inner_loops, metadata)
    /\ \E loops \in LoopsArgs, inner_loops \in InnerLoopsArgs, metadata \in MetadataArgs :
          other = Benchmark(None, loops, inner_loops, metadata)
    /\ op = "__init__"
    /\ exc = "None"
    /\ ret = None
    /\ args = None

AddRunSelf == AddRunFrom(WorkerSampleInputs, WorkerWarmupInputs)

\* other.add_run(samples, warmups)
AddRunOther ==
    /\ LET stored == Len(get_samples(other))
       IN  \E samples \in WorkerSampleInputs :
              /\ stored + Len(samples) <= MaxStored
              /\ \E warmups \in WorkerWarmupInputs :
                    LET r == add_run(other, samples, warmups)
                    IN  /\ other' = r.bench
                        /\ exc' = r.exc
    /\ op' = "other.add_run"
    /\ ret' = None
    /\ args' = None
    /\ UNCHANGED self

\* self._get_worker_run(other); args keeps the two aggregates as passed
GetWorkerRun ==
    /\ LET r == _get_worker_run(self, other)
       IN  /\ exc' = r.exc
           /\ ret' = r.ret
    /\ op' = "_get_worker_run"
    /\ args' = <<self, other>>
    /\ UNCHANGED <<self, other>>

\* self.add_run(*run) on the run _get_worker_run has just returned;
\* args keeps that run
AddWorkerRun ==
    /\ op = "_get_worker_run"
    /\ exc = "None"
    /\ Len(get_samples(self)) + Len(ret[1][1]) <= MaxStored
    /\ LET r == add_run(self, ret[1][1], Some(ret[1][2]))
       IN  /\ self' = r.bench
           /\ exc' = r.exc
    /\ op' = "add_worker_run"
    /\ args' = ret[1]
    /\ ret' = None
    /\ UNCHANGED other

NextWorker == AddRunSelf \/ AddRunOther \/ GetWorkerRun \/ AddWorkerRun

SpecWorker == InitWorker /\ [][NextWorker]_vars

----------------------------------------------------------------------------
(* The t-test.  Critical values are in thousandths (3.182 is 3182).        *)

_T_DIST_95_CONF_LEVELS ==
    <<0, 12706, 4303, 3182, 2776,
      2571, 2447, 2365, 2306, 2262,
      2228, 2201, 2179, 2160, 2145,
      2131, 2120, 2110, 2101, 2093,
      2086, 2080, 2074, 2069, 2064,
      2060, 2056, 2052, 2048, 2045,
      2042>>

\* ListItem reading the item after the one asked for (the last one at the end)
ListItem_next(xs, i) ==
    IF i >= 0 THEN xs[IF i + 2 <= Len(xs) THEN i + 2 ELSE Len(xs)] ELSE xs[Len(xs) + i + 1]

\* xs[i] of a Python list, for -len(xs) <= i < len(xs): a negative index
\* counts from the end
ListItem(xs, i) == IF i >= 0 THEN xs[i + 1] ELSE xs[Len(xs) + i + 1]

\* the table taken one entry short
highest_table_df_short == Len(_T_DIST_95_CONF_LEVELS) - 1

\* len(_T_DIST_95_CONF_LEVELS)
highest_table_df == Len(_T_DIST_95_CONF_LEVELS)

\* _tdist95conf_level(df) for an integer df (int(round(df)) is df)
_tdist95conf_level(df) ==
    IF df >= 200 THEN 1960
    ELSE IF df >= 100 THEN 1984
    ELSE IF df >= 80 THEN 1990
    ELSE IF df >= 60 THEN 2000
    ELSE IF df >= 50 THEN 2009
    ELSE IF df >= 40 THEN 2021
    ELSE IF df >= highest_table_df THEN ListItem(_T_DIST_95_CONF_LEVELS, highest_table_df - 1)
    ELSE ListItem(_T_DIST_95_CONF_LEVELS, df)

\* float arithmetic on finite values, kept exact
FSub(a, b) == Frac(a.n * b.d - b.n * a.d, a.d * b.d)

FAdd(a, b) == Frac(a.n * b.d + b.n * a.d, a.d * b.d)

FMul(a, b) == Frac(a.n * b.n, a.d * b.d)

\* a / b for b # 0
FDiv(a, b) == Frac(a.n * b.d, a.d * b.n)

FInt(n) == Frac(n, 1)

\* math.fsum((x - m) ** 2 for x in sample)
RECURSIVE SumSquares(_, _)
SumSquares(sample, m) ==
    IF sample = <<>> THEN FInt(0)
    ELSE LET dx == FSub(FInt(Head(sample).v), m)
         IN  FAdd(FMul(dx, dx), SumSquares(Tail(sample), m))

\* _pooled_sample_variance(sample1, sample2)
_pooled_sample_variance(sample1, sample2) ==
    LET deg_freedom == Len(sample1) + Len(sample2) - 2
        mean1 == statistics_mean(sample1)
        mean2 == statistics_mean(sample2)
    IN  IF mean1.exc # "None" THEN [exc |-> mean1.exc, ret |-> None]
        ELSE IF mean2.exc # "None" THEN [exc |-> mean2.exc, ret |-> None]
        ELSE IF deg_freedom = 0 THEN [exc |-> "ZeroDivisionError", ret |-> None]
        ELSE [exc |-> "None",
              ret |-> Some(FDiv(FAdd(SumSquares(sample1, mean1.ret[1]),
                                     SumSquares(sample2, mean2.ret[1])),
                                FInt(deg_freedom)))]

Sign(x) == IF x > 0 THEN 1 ELSE IF x < 0 THEN -1 ELSE 0

\* the float num / math.sqrt(radicand), radicand > 0: the float t with
\* sign sgn and t * t = sq
QuotientBySqrt(num, radicand) ==
    [sgn |-> Sign(num.n), sq |-> FDiv(FMul(num, num), radicand)]

\* SameLen with the assertion compiled out
SameLen_unchecked(sample1, sample2) == TRUE

\* _tscore: the asserted condition
SameLen(sample1, sample2) == Len(sample1) = Len(sample2)

\* _tscore(sample1, sample2)
_tscore(sample1, sample2) ==
    IF ~SameLen(sample1, sample2) THEN [exc |-> "AssertionError", ret |-> None]
    ELSE LET v == _pooled_sample_variance(sample1, sample2)
         IN  IF v.exc # "None" THEN [exc |-> v.exc, ret |-> None]
             ELSE LET error == FDiv(v.ret[1], FInt(Len(sample1)))
                      radicand == FMul(error, FInt(2))
                      diff == FSub(statistics_mean(sample1).ret[1],
                                   statistics_mean(sample2).ret[1])
                  IN  IF radicand.n = 0
                      THEN [exc |-> "ZeroDivisionError", ret |-> None]
                      ELSE [exc |-> "None", ret |-> Some(QuotientBySqrt(diff, radicand))]

\* abs(t_score) >= critical_value, the critical value in thousandths
AbsGe(t, critical_value) ==
    t.sq.n * 1000 * 1000 >= critical_value * critical_value * t.sq.d

\* is_significant(sample1, sample2); the result is <<significant, t_score>>
is_significant(sample1, sample2) ==
    LET deg_freedom == Len(sample1) + Len(sample2) - 2
        critical_value == _tdist95conf_level(deg_freedom)
        t == _tscore(sample1, sample2)
    IN  IF t.exc # "None" THEN [exc |-> t.exc, ret |-> None]
        ELSE [exc |-> "None", ret |-> Some(<<AbsGe(t.ret[1], critical_value), t.ret[1]>>)]

----------------------------------------------------------------------------
(* SpecTDist: _tdist95conf_level on every df of 0..MaxDf *)

\* largest number of degrees of freedom looked up
MaxDf == 260

InitTDist ==
    /\ self = Benchmark(None, None, None, None)
    /\ other = Benchmark(None, None, None, None)
    /\ op = "call"
    /\ exc = "None"
    /\ ret = None
    /\ args \in 0..MaxDf

\* ret = _tdist95conf_level(args)
CallTDist ==
    /\ op = "call"
    /\ ret' = Some(_tdist95conf_level(args))
    /\ op' = "_tdist95conf_level"
    /\ UNCHANGED <<self, other, exc, args>>

NextTDist == CallTDist

SpecTDist == InitTDist /\ [][NextTDist]_vars

----------------------------------------------------------------------------
(* SpecSig: _tscore and is_significant on every pair of samples of at most *)
(* MaxSigLen values                                                        *)

\* longest sample compared
MaxSigLen == 5

SigValues == {F(1), F(5)}

SigInputs == SeqsUpTo(SigValues, MaxSigLen)

InitSig ==
    /\ self = Benchmark(None, None, None, None)
    /\ other = Benchmark(None, None, None, None)
    /\ op = "call"
    /\ exc = "None"
    /\ ret = None
    /\ args \in SigInputs \X SigInputs

\* _tscore(sample1, sample2)
CallTScore ==
    /\ op = "call"
    /\ LET r == _tscore(args[1], args[2])
       IN  /\ exc' = r.exc
           /\ ret' = r.ret
    /\ op' = "_tscore"
    /\ UNCHANGED <<self, other, args>>

\* is_significant(sample1, sample2)
CallIsSignificant ==
    /\ op = "call"
    /\ LET r == is_significant(args[1], args[2])
       IN  /\ exc' = r.exc
           /\ ret' = r.ret
    /\ op' = "is_significant"
    /\ UNCHANGED <<self, other, args>>

NextSig == CallTScore \/ CallIsSignificant

SpecSig == InitSig /\ [][NextSig]_vars

----------------------------------------------------------------------------
(* Properties of Benchmark, under Spec *)

\* the number of warmups an add_run call passes
WarmupCount(warmups) == IF warmups = None THEN 0 ELSE Len(warmups[1])

\* C1: every stored run has as many samples and as many warmups as the
\* first stored run, whatever add_run calls were made
C1_SameShape ==
    \A i \in 1..Len(self._runs) :
        /\ Len(self._runs[i][1]) = Len(self._runs[1][1])
        /\ Len(self._runs[i][2]) = Len(self._runs[1][2])

\* two runs with warmups are stored and a third of another length was refused
C1_Witness ==
    /\ Len(self._runs) >= 2
    /\ Len(self._runs[1][2]) > 0
    /\ op = "add_run"
    /\ exc = "ValueError: different number of samples"

\* m is the arithmetic mean of data
IsMeanOf(m, data) ==
    IF \E i \in 1..Len(data) : data[i].k = "inf"
    THEN m.k = "inf"
    ELSE m.k = "float" /\ m.d > 0 /\ m.n * Len(data) = SumV(data) * m.d

\* the samples of every stored run, in order, without the warmups
AllSamples == [i \in 1..Len(self._runs) |-> self._runs[i][1]]

RECURSIVE Concat(_)
Concat(seqs) == IF seqs = <<>> THEN <<>> ELSE Head(seqs) \o Concat(Tail(seqs))

\* C2: a cached mean is the mean of the samples stored now, and a mean()
\* call that succeeds returns the mean of the samples stored at the call
C2_MeanFresh ==
    /\ self._mean # None => IsMeanOf(self._mean[1], Concat(AllSamples))
    /\ (op = "mean" /\ exc = "None") =>
           ret # None /\ IsMeanOf(ret[1], Concat(AllSamples))

\* mean() has returned a mean that is not a whole number, over two runs
C2_Witness ==
    /\ op = "mean"
    /\ exc = "None"
    /\ Len(self._runs) >= 2
    /\ ret[1].k = "float"
    /\ ret[1].d > 1

\* C3: on an aggregate that holds a run, add_run with another sample count
\* or another warmup count than the first run's raises and leaves the
\* aggregate (run list and cached mean) as it was
C3_MismatchRejected ==
    \A samples \in SampleInputs, warmups \in WarmupInputs :
        ( /\ self._runs # <<>>
          /\ \/ Len(samples) # Len(self._runs[1][1])
             \/ WarmupCount(warmups) # Len(self._runs[1][2]) )
        => LET r == add_run(self, samples, warmups)
           IN  r.exc # "None" /\ r.bench = self

\* add_run has refused a run for its warmup count while a mean was cached
C3_Witness ==
    /\ op = "add_run"
    /\ exc = "ValueError: different number of warmups"
    /\ self._runs # <<>>
    /\ self._mean # None

\* a value that is not a float >= 0: negative, not-a-number or not a float
NotFloatGe0(value) ==
    \/ value.k = "nan"
    \/ value.k = "int"
    \/ value.k = "float" /\ value.v < 0

\* a value that is not a finite number >= 0
NotFiniteGe0(value) == NotFloatGe0(value) \/ value.k = "inf"

----------------------------------------------------------------------------
(* Properties of _get_worker_run, under SpecWorker *)

\* C5: _get_worker_run raises unless other holds exactly one run and has
\* self's loops, inner_loops and metadata, and then returns that run; it
\* changes neither aggregate; add_run of the returned run is refused when
\* its counts differ from those of self's first run, and appends it otherwise
C5_WorkerRun ==
    /\ op = "_get_worker_run" =>
          /\ args = <<self, other>>
          /\ IF /\ Len(other._runs) = 1
                /\ other.loops = self.loops
                /\ other.inner_loops = self.inner_loops
                /\ other.metadata = self.metadata
             THEN exc = "None" /\ ret = Some(other._runs[1])
             ELSE exc # "None" /\ ret = None
    /\ op = "add_worker_run" =>
          IF /\ self._runs # <<>>
             /\ Len(args[1]) = Len(self._runs[1][1])
             /\ Len(args[2]) = Len(self._runs[1][2])
          THEN exc = "None" /\ self._runs[Len(self._runs)] = args
          ELSE exc # "None"

\* the worker's run passed _get_worker_run and add_run then refused it
C5_Witness ==
    /\ op = "add_worker_run"
    /\ exc = "ValueError: different number of samples"
    /\ Len(other._runs) = 1
    /\ DOMAIN self.metadata # {}

----------------------------------------------------------------------------
(* Properties of _as_json and _json_load, under SpecJson *)

\* C6: decoding the encoding of a Benchmark whose name is None or non-empty
\* raises nothing and gives a Benchmark with the same name, runs, loops,
\* inner_loops and metadata
C6_RoundTrip ==
    (op = "_json_load" /\ (self.name = None \/ self.name[1] # "")) =>
        /\ exc = "None"
        /\ ret.name = self.name
        /\ ret._runs = self._runs
        /\ ret.loops = self.loops
        /\ ret.inner_loops = self.inner_loops
        /\ ret.metadata = self.metadata

\* a named Benchmark with loops, metadata and two runs with warmups has
\* been encoded and decoded
C6_Witness ==
    /\ op = "_json_load"
    /\ self.name = Some("x")
    /\ self.loops # None
    /\ self.inner_loops = None
    /\ DOMAIN self.metadata # {}
    /\ Len(self._runs) >= 2
    /\ self._runs[1][2] # <<>>

----------------------------------------------------------------------------
(* Properties of _tdist95conf_level, under SpecTDist *)

\* the table of the reference policy, index df at position df + 1
PolicyTable ==
    <<0, 12706, 4303, 3182, 2776, 2571, 2447, 2365, 2306, 2262,
      2228, 2201, 2179, 2160, 2145, 2131, 2120, 2110, 2101, 2093,
      2086, 2080, 2074, 2069, 2064, 2060, 2056, 2052, 2048, 2045, 2042>>

\* the reference policy, for df >= 0
Policy(df) ==
    CASE df >= 200 -> 1960
      [] 100 <= df /\ df < 200 -> 1984
      [] 80 <= df /\ df < 100 -> 1990
      [] 60 <= df /\ df < 80 -> 2000
      [] 50 <= df /\ df < 60 -> 2009
      [] 40 <= df /\ df < 50 -> 2021
      [] 30 <= df /\ df < 40 -> 2042
      [] 0 <= df /\ df < 30 -> PolicyTable[df + 1]

\* C7: for every df >= 0, _tdist95conf_level(df) is the reference policy's
\* value
C7_Policy == op = "_tdist95conf_level" => ret = Some(Policy(args))

\* the lookup was made at the end of the table
C7_Witness == op = "_tdist95conf_level" /\ args = 30 /\ ret = Some(2042)

\* C8 as stated: the lookup gives 3.182 for 2 degrees of freedom, 1.960
\* for 250 and 2.021 for 45
C8_Original ==
    op = "_tdist95conf_level" =>
        /\ args = 2 => ret = Some(3182)
        /\ args = 250 => ret = Some(1960)
        /\ args = 45 => ret = Some(2021)

\* C8 as amended: the lookup gives 4.303 for 2 degrees of freedom (3.182
\* is the value for 3), 1.960 for 250 and 2.021 for 45
C8_Values ==
    op = "_tdist95conf_level" =>
        /\ args = 2 => ret = Some(4303)
        /\ args = 3 => ret = Some(3182)
        /\ args = 250 => ret = Some(1960)
        /\ args = 45 => ret = Some(2021)

\* the lookup was made for 2 degrees of freedom
C8_Witness == op = "_tdist95conf_level" /\ args = 2 /\ ret # None

----------------------------------------------------------------------------
(* Properties of _tscore and is_significant, under SpecSig *)

\* C9: is_significant of two identical samples of length >= 2 raises
\* nothing and returns (False, 0.0)
C9_IdenticalNotSignificant ==
    (op = "is_significant" /\ args[1] = args[2] /\ Len(args[1]) >= 2) =>
        /\ exc = "None"
        /\ ret[1][1] = FALSE
        /\ ret[1][2].sgn = 0

\* C10: _tscore and is_significant of two samples of different lengths
\* raise before any result is computed
C10_LengthsChecked ==
    (op \in {"_tscore", "is_significant"} /\ Len(args[1]) # Len(args[2])) =>
        exc = "AssertionError" /\ ret = None

\* is_significant was called with samples of 2 and 3 values
C10_Witness ==
    /\ op = "is_significant"
    /\ Len(args[1]) = 2
    /\ Len(args[2]) = 3
    /\ exc = "AssertionError"

====
